---- MODULE Spec2Model ----
(***************************************************************************)
(* A model of anki-wikidata-geography: build_deck.py (the deck builder and *)
(* its helpers) and make_map.py (the bounding box of a set of points).     *)
(*                                                                         *)
(* The module holds several specifications over one set of variables:      *)
(*   SpecBBox    bounding_box_for_points applied to bounded point lists    *)
(*   SpecSubdiv  the get_subdivisions generator over bounded child lists   *)
(*   SpecBg      create_background_map applied to bounded image lists      *)
(*   SpecIds     two runs of main's identifier generation, side by side    *)
(*   Spec        one run of main, in cities mode or in subdivisions mode   *)
(*   SpecResolve try_get_label_in and try_get_wikilink_in, call by call    *)
(*   SpecDownload download_locator_map, request by request                 *)
(*   SpecMap     make_map up to its choice of the central longitude        *)
(* A specification leaves the variables of the other parts at Idle.        *)
(***************************************************************************)
EXTENDS Integers, Sequences, FiniteSets, TLC

VARIABLES
    bbPoints,       \* make_map.py: the *points argument of bounding_box_for_points
    bbResult,       \* make_map.py: what bounding_box_for_points returned (or raised)
    sdDate,         \* get_subdivisions: the reference date
    sdIndex,        \* get_subdivisions: how many children of the parent's list were examined
    sdCurrent,      \* get_subdivisions: the child examined last
    sdYielded,      \* get_subdivisions: the positions (in the child list) of the children yielded
    sdRaised,       \* get_subdivisions: the exception that ended the generator, or None
    bgInput,        \* create_background_map: the opened raster images, in list order
    bgResult,       \* create_background_map: what the call returned, raised, logged and saved
    idArgs,         \* two runs of main: the region, --language and --cities they share
    idEntity,       \* two runs of main: the Wikidata id of the entity both build a record for
    idRuns,         \* two runs of main: per run, the deck id, the record's fields and its guid
    args,           \* main: the parsed command line
    kg,             \* main: what the knowledge graph holds at the time of the run
    pc,             \* main: where the run is
    idx,            \* main: the position of the loop at hand in its list (from 1)
    retries,        \* download_locator_map: the incomplete reads of the download at hand
    region_label,   \* main: region_label
    deck_id,        \* main: deck_id
    deck,           \* main: the genanki.Deck: its id, its name and its notes
    media_files,    \* main: media_files
    subdivision_maps, \* main: the dict subdivision_maps, in insertion order
    background_map, \* main: background_map
    files,          \* the files of the image folder, by base name
    package,        \* the packages written to disk, in order
    failure,        \* the exception that ended the run, and where it was raised
    rsEntity,       \* label and link resolution: the entity's labels and sitelinks
    rsKind,         \* label and link resolution: "label" or "link", the function called
    rsRequested,    \* label and link resolution: the language of the outermost call
    rsLanguage,     \* label and link resolution: the language of the call at hand
    rsWarnings,     \* label and link resolution: the warnings logged so far
    rsResult,       \* label and link resolution: what the outermost call returned or raised
    dlArgs,         \* download_locator_map: url, image_folder and filename
    dlPc,           \* download_locator_map: where the call is
    dlRequests,     \* download_locator_map: the requests issued so far
    dlReads,        \* download_locator_map: the outcome of each read so far, in order
    dlMapData,      \* download_locator_map: map_data
    dlFiles,        \* download_locator_map: the files of the image folder, by name
    dlWrites,       \* download_locator_map: what was written to files, in order
    dlResult,       \* download_locator_map: what the call returned or raised
    mmArgs,         \* make_map: lat, lon and the bounding boxes of the country's subunits
    mmResult        \* make_map: the points, the boxes and the central longitude chosen

bbVars == <<bbPoints, bbResult>>
sdVars == <<sdDate, sdIndex, sdCurrent, sdYielded, sdRaised>>

bgVars == <<bgInput, bgResult>>

idVars == <<idArgs, idEntity, idRuns>>

mainVars ==
    <<args, kg, pc, idx, retries, region_label, deck_id, deck, media_files,
      subdivision_maps, background_map, files, package, failure>>

rsVars == <<rsEntity, rsKind, rsRequested, rsLanguage, rsWarnings, rsResult>>

dlVars == <<dlArgs, dlPc, dlRequests, dlReads, dlMapData, dlFiles, dlWrites, dlResult>>

mmVars == <<mmArgs, mmResult>>

helperVars == <<rsVars, dlVars, mmVars>>

vars == <<bbVars, sdVars, bgVars, idVars, mainVars, helperVars>>

\* The value of a variable that the specification at hand does not use.
Idle == "idle"

\* Python's None.
None == "None"

----------------------------------------------------------------------------
(* The values the variables of a part hold while another part runs.        *)

\* bbResult before the call.
NotCalled == [called |-> FALSE, raised |-> None, box |-> <<>>, cross |-> FALSE]

BBoxIdle == bbPoints = <<>> /\ bbResult = NotCalled

NoSubdivision ==
    [inception |-> <<"missing">>, start_time |-> <<"missing">>,
     dissolved |-> <<"missing">>, end_time |-> <<"missing">>]

SubdivIdle ==
    /\ sdDate = <<>>
    /\ sdIndex = 0
    /\ sdCurrent = NoSubdivision
    /\ sdYielded = <<>>
    /\ sdRaised = None

\* None where a path is expected.
NonePath == [dir |-> None, stem |-> None, ext |-> None]

\* No image: nothing was saved.
NoImage == [size |-> <<0, 0>>, data |-> <<>>]

\* bgResult before the call.
BgNotCalled ==
    [called |-> FALSE, raised |-> None, ret |-> NonePath, warned |-> FALSE,
     saved |-> NoImage]

BgIdle == bgInput = <<>> /\ bgResult = BgNotCalled

\* A run that has not computed its identifiers yet.
NoRun == [done |-> FALSE, deck_id |-> 0, fields |-> <<>>, guid |-> 0]

IdsIdle ==
    /\ idArgs = [region |-> <<>>, language |-> <<>>, cities |-> FALSE]
    /\ idEntity = <<>>
    /\ idRuns = [r \in 1..2 |-> NoRun]

\* No deck yet.
NoDeck == [deck_id |-> 0, name |-> <<"", <<>>>>, notes |-> <<>>]

\* No exception.
NoFailure == [exc |-> None, at |-> None]

MainIdle ==
    /\ args = [region |-> <<>>, language |-> <<>>, cities |-> FALSE, image_folder |-> ""]
    /\ kg = [label |-> <<>>, children |-> <<>>, cities |-> <<>>, today |-> <<>>]
    /\ pc = "idle"
    /\ idx = 0
    /\ retries = 0
    /\ region_label = <<>>
    /\ deck_id = 0
    /\ deck = NoDeck
    /\ media_files = <<>>
    /\ subdivision_maps = <<>>
    /\ background_map = [dir |-> None, stem |-> None, ext |-> None]
    /\ files = <<>>
    /\ package = <<>>
    /\ failure = NoFailure

\* None where a string is expected.
NoneStr == <<-1>>

\* rsResult before the outermost call has ended.
NotResolved == [returned |-> FALSE, raised |-> None, value |-> NoneStr]

ResolveIdle ==
    /\ rsEntity = [label |-> <<>>, sitelinks |-> <<>>]
    /\ rsKind = "idle"
    /\ rsRequested = NoneStr
    /\ rsLanguage = NoneStr
    /\ rsWarnings = 0
    /\ rsResult = NotResolved

\* None where a URL is expected.
NoneUrl == [of |-> NoneStr, ext |-> None]

\* map_data before a read has completed.
NoData == <<-1>>

\* dlResult before the call has ended.
NotDownloaded ==
    [returned |-> FALSE, raised |-> None, origin_map |-> NonePath, raster_map |-> NonePath]

DownloadIdle ==
    /\ dlArgs = [url |-> NoneUrl, image_folder |-> "", filename |-> <<>>]
    /\ dlPc = "idle"
    /\ dlRequests = 0
    /\ dlReads = <<>>
    /\ dlMapData = NoData
    /\ dlFiles = <<>>
    /\ dlWrites = <<>>
    /\ dlResult = NotDownloaded

\* mmResult before the call.
MapNotCalled ==
    [called |-> FALSE, raised |-> None, points |-> <<>>, big_box |-> <<>>,
     bigger_box |-> <<>>, central_longitude |-> 0]

MapIdle ==
    /\ mmArgs = [given |-> FALSE, lat |-> 0, lon |-> 0, boxes |-> <<>>]
    /\ mmResult = MapNotCalled

HelpersIdle == ResolveIdle /\ DownloadIdle /\ MapIdle

----------------------------------------------------------------------------
(* Python builtins used by the code.                                       *)

\* min() over a non-empty sequence of numbers.
MinOf(s) == CHOOSE x \in {s[i] : i \in 1..Len(s)} : \A j \in 1..Len(s) : x <= s[j]

\* max() over a non-empty sequence of numbers.
MaxOf(s) == CHOOSE x \in {s[i] : i \in 1..Len(s)} : \A j \in 1..Len(s) : x >= s[j]

\* sorted() over a sequence of numbers, ascending: at position k stands the
\* value that has fewer than k smaller entries and at least k entries not
\* greater.
Sorted(s) ==
    [k \in 1..Len(s) |->
        CHOOSE v \in {s[i] : i \in 1..Len(s)} :
            /\ Cardinality({i \in 1..Len(s) : s[i] < v}) < k
            /\ k <= Cardinality({i \in 1..Len(s) : s[i] <= v})]

\* The sequences over S of length at most n: the bounded inputs.
RECURSIVE SeqsUpTo(_, _)
SeqsUpTo(S, n) ==
    IF n = 0 THEN {<<>>}
    ELSE LET shorter == SeqsUpTo(S, n - 1)
         IN shorter \cup {Append(s, x) : s \in {t \in shorter : Len(t) = n - 1}, x \in S}

\* The least and the greatest element of a non-empty set of numbers.
Least(S) == CHOOSE x \in S : \A y \in S : x <= y
Greatest(S) == CHOOSE x \in S : \A y \in S : x >= y

----------------------------------------------------------------------------
(* build_deck.py: try_get_time_property and get_subdivisions.  A date is    *)
(* <<year, month, day>>; dates compare as datetime.date does.  The value of *)
(* a time property as the Wikidata client gives it is <<"missing">> (get    *)
(* returns None), <<"unreadable">> (get raises DatavalueError), <<"year",   *)
(* y>> (an int) or <<"date", y, m, d>> (a datetime.date).  datetime.date    *)
(* takes the years 1 to 9999; for any other int line 56 raises ValueError.  *)

\* The bound on the number of children in the parent's child list.
MaxSubdivisions == 2

\* try_get_time_property's None.
NoDate == <<>>

RefDates == {<<2020, 1, 1>>, <<2020, 6, 15>>}

TimeValues ==
    {<<"missing">>, <<"unreadable">>, <<"year", 2020>>, <<"year", 2021>>,
     <<"year", 0>>, <<"date", 2019, 12, 31>>, <<"date", 2020, 6, 15>>}

\* The time properties of one child: P571, P580, P576, P582.
SubdivisionTimes ==
    [inception : TimeValues, start_time : TimeValues,
     dissolved : TimeValues, end_time : TimeValues]

\* datetime.date.__gt__
DateGreater(a, b) ==
    \/ a[1] > b[1]
    \/ a[1] = b[1] /\ a[2] > b[2]
    \/ a[1] = b[1] /\ a[2] = b[2] /\ a[3] > b[3]

\* datetime.date.__lt__
DateLess(a, b) == DateGreater(b, a)

\* What try_get_time_property gives when datetime.date raises ValueError,
\* which line 59 does not catch.
DateValueError == <<"ValueError">>

\* lines 47-60: an int is a year and becomes January 1 of it, if datetime.date
\* takes the year; DatavalueError becomes None; a missing property is None
\* already.
TryGetTimeProperty(raw) ==
    IF raw[1] = "unreadable" THEN NoDate
    ELSE IF raw[1] = "missing" THEN NoDate
    ELSE IF raw[1] = "year"
    THEN IF raw[2] \in 1..9999 THEN <<raw[2], 1, 1>> ELSE DateValueError
    ELSE <<raw[2], raw[3], raw[4]>>

\* lines 158-161: one of the four calls raises, before any bound is compared.
TimePropertyRaises(subdivision) ==
    \/ TryGetTimeProperty(subdivision.inception) = DateValueError
    \/ TryGetTimeProperty(subdivision.start_time) = DateValueError
    \/ TryGetTimeProperty(subdivision.dissolved) = DateValueError
    \/ TryGetTimeProperty(subdivision.end_time) = DateValueError

\* lines 158-166: the condition under which the loop skips a child.
Excluded(subdivision, date) ==
    LET inception == TryGetTimeProperty(subdivision.inception)
        start_time == TryGetTimeProperty(subdivision.start_time)
        dissolved == TryGetTimeProperty(subdivision.dissolved)
        end_time == TryGetTimeProperty(subdivision.end_time)
    IN \/ inception # NoDate /\ DateGreater(inception, date)
       \/ start_time # NoDate /\ DateGreater(start_time, date)
       \/ dissolved # NoDate /\ DateLess(dissolved, date)
       \/ end_time # NoDate /\ DateLess(end_time, date)

\* The children the loop of line 157 gets through: all of them, or those
\* before the first one for which a time property raises.
ExaminedSubdivisions(subdivisions) ==
    IF \E i \in 1..Len(subdivisions) : TimePropertyRaises(subdivisions[i])
    THEN SubSeq(subdivisions, 1,
                Least({i \in 1..Len(subdivisions) :
                          TimePropertyRaises(subdivisions[i])}) - 1)
    ELSE subdivisions

\* lines 152-167: the children the generator yields, in the list's order.
GetSubdivisions(subdivisions, date) ==
    SelectSeq(ExaminedSubdivisions(subdivisions), LAMBDA s : ~Excluded(s, date))

\* lines 152-167: the generator ends with the ValueError of line 56 instead
\* of running out.
GetSubdivisionsRaises(subdivisions) ==
    \E i \in 1..Len(subdivisions) : TimePropertyRaises(subdivisions[i])

SubdivInit ==
    /\ sdDate \in RefDates
    /\ sdIndex = 0
    /\ sdCurrent = NoSubdivision
    /\ sdYielded = <<>>
    /\ sdRaised = None
    /\ BBoxIdle
    /\ BgIdle
    /\ IdsIdle
    /\ MainIdle
    /\ HelpersIdle

\* One turn of the loop of get_subdivisions (lines 157-167) over the next
\* child of the parent's list; a ValueError of line 56 ends the generator.
ExamineSubdivision ==
    /\ sdDate # <<>>
    /\ sdRaised = None
    /\ sdIndex < MaxSubdivisions
    /\ \E subdivision \in SubdivisionTimes :
          /\ sdCurrent' = subdivision
          /\ sdIndex' = sdIndex + 1
          /\ IF TimePropertyRaises(subdivision)
             THEN sdRaised' = "ValueError" /\ UNCHANGED sdYielded
             ELSE /\ sdYielded' = IF Excluded(subdivision, sdDate)
                                  THEN sdYielded
                                  ELSE Append(sdYielded, sdIndex + 1)
                  /\ UNCHANGED sdRaised
    /\ UNCHANGED <<sdDate, bbVars, bgVars, idVars, mainVars, helperVars>>

SubdivNext == ExamineSubdivision

SpecSubdiv == SubdivInit /\ [][SubdivNext]_vars

(* The validity window of a child, stated on day numbers.                   *)

DayNumber(y, m, d) == (y * 12 + (m - 1)) * 31 + (d - 1)

\* A readable bound as a day number; a bare year counts as its January 1.
BoundDay(raw) ==
    IF raw[1] = "year" THEN DayNumber(raw[2], 1, 1) ELSE DayNumber(raw[2], raw[3], raw[4])

Readable(raw) == raw[1] \in {"year", "date"}

StartsAfter(raw, date) ==
    Readable(raw) /\ BoundDay(raw) > DayNumber(date[1], date[2], date[3])

EndsBefore(raw, date) ==
    Readable(raw) /\ BoundDay(raw) < DayNumber(date[1], date[2], date[3])

WindowContains(subdivision, date) ==
    /\ ~StartsAfter(subdivision.inception, date)
    /\ ~StartsAfter(subdivision.start_time, date)
    /\ ~EndsBefore(subdivision.dissolved, date)
    /\ ~EndsBefore(subdivision.end_time, date)

\* C4: get_subdivisions yields, in the order of the child list, exactly the
\* children whose validity window contains the date: a child is left out if
\* and only if its inception or start time is later than the date or its
\* dissolution or end time is earlier; a bound equal to the date, an absent
\* and an unreadable bound do not exclude; a bare year is January 1.
C4_YieldsExactlyValidChildren ==
    /\ sdIndex > 0 =>
          ((\E i \in 1..Len(sdYielded) : sdYielded[i] = sdIndex)
              <=> WindowContains(sdCurrent, sdDate))
    /\ \A i \in 1..Len(sdYielded) : sdYielded[i] \in 1..sdIndex
    /\ \A i, j \in 1..Len(sdYielded) : i < j => sdYielded[i] < sdYielded[j]

----------------------------------------------------------------------------
(* build_deck.py: create_background_map.  An image is its pixel dimensions *)
(* and its RGBA data, one value in 0..255 per pixel and channel, as        *)
(* Image.open followed by convert('RGBA') gives it.                        *)

\* The bound on the number of raster maps handed to create_background_map.
MaxImages == 3

\* The channels of an RGBA pixel.
Channels == 4

ImageSizes == {<<1, 1>>, <<2, 1>>}
PixelSeeds == {0, 10, 25, 255}

\* An image of the given size whose channel values all differ.
MkImage(size, seed) ==
    [size |-> size,
     data |-> [k \in 1..(size[1] * size[2] * Channels) |-> (seed + 37 * k) % 256]]

\* A one-pixel image of one grey level, opaque.
FlatImage(v) == [size |-> <<1, 1>>, data |-> <<v, v, v, 255>>]

ImagePool ==
    {MkImage(size, seed) : size \in ImageSizes, seed \in PixelSeeds}
        \cup {FlatImage(v) : v \in {10, 20, 30}}

\* A path f'{folder}/{stem}.{ext}'.
Path(folder, stem, ext) == [dir |-> folder, stem |-> stem, ext |-> ext]

\* line 228: Counter(sizes).most_common(1)[0][0]: the size counted most often,
\* and among equally frequent sizes the one seen first.
CommonSize(images) ==
    LET count(sz) == Cardinality({i \in 1..Len(images) : images[i].size = sz})
        first == CHOOSE i \in 1..Len(images) :
                     /\ \A j \in 1..Len(images) : count(images[j].size) <= count(images[i].size)
                     /\ \A j \in 1..(i - 1) : count(images[j].size) < count(images[i].size)
    IN images[first].size

\* A median that rounds the mean of the two middle values up.
MedianRoundedUp(values) ==
    LET sorted == Sorted(values)
        n == Len(sorted)
    IN IF n % 2 = 1 THEN sorted[(n + 1) \div 2]
       ELSE (sorted[n \div 2] + sorted[n \div 2 + 1] + 1) \div 2

\* lines 234-235: np.median along the image axis, then the cast back to the
\* stack's uint8: the middle value, or the mean of the two middle values with
\* its fraction cut off.
Median(values) ==
    LET sorted == Sorted(values)
        n == Len(sorted)
    IN IF n % 2 = 1 THEN sorted[(n + 1) \div 2]
       ELSE (sorted[n \div 2] + sorted[n \div 2 + 1]) \div 2

\* lines 226-238.  The result tells what was raised, returned, logged as a
\* warning and saved under the returned name.
CreateBackgroundMap(images, label_of_region, image_folder) ==
    IF images = <<>>
    THEN [called |-> TRUE, raised |-> "IndexError", ret |-> NonePath,
          warned |-> FALSE, saved |-> NoImage]
    ELSE LET common_size == CommonSize(images)
             raster_maps == SelectSeq(images, LAMBDA i : i.size = common_size)
             n == Len(raster_maps)
             background ==
                 [size |-> common_size,
                  data |-> [k \in 1..Len(raster_maps[1].data) |->
                               Median([i \in 1..n |-> raster_maps[i].data[k]])]]
         IN IF n = 1
            THEN [called |-> TRUE, raised |-> None, ret |-> NonePath,
                  warned |-> TRUE, saved |-> NoImage]
            ELSE [called |-> TRUE, raised |-> None,
                  ret |-> Path(image_folder, label_of_region, "png"),
                  warned |-> FALSE, saved |-> background]

BgInit ==
    /\ bgInput \in SeqsUpTo(ImagePool, MaxImages)
    /\ bgResult = BgNotCalled
    /\ BBoxIdle
    /\ SubdivIdle
    /\ IdsIdle
    /\ MainIdle
    /\ HelpersIdle

\* One call of create_background_map on the opened images.
CallCreateBackgroundMap ==
    /\ ~bgResult.called
    /\ bgResult' = CreateBackgroundMap(bgInput, "Region", "folder")
    /\ UNCHANGED <<bgInput, bbVars, sdVars, idVars, mainVars, helperVars>>

BgNext == CallCreateBackgroundMap

SpecBg == BgInit /\ [][BgNext]_vars

(* The claims' terms, stated by counting.                                   *)

SizeCount(images, sz) == Cardinality({i \in 1..Len(images) : images[i].size = sz})

\* How many images remain once all but a most common size are discarded.
RemainingCount(images) ==
    IF images = <<>> THEN 0
    ELSE Greatest({SizeCount(images, images[i].size) : i \in 1..Len(images)})

\* The k-th smallest of the values val[i], i in I.
KthSmallest(I, val, k) ==
    CHOOSE x \in {val[i] : i \in I} :
        /\ Cardinality({i \in I : val[i] < x}) < k
        /\ Cardinality({i \in I : val[i] <= x}) >= k

\* The median of the values val[i], i in I, its fraction cut off.
TrueMedian(I, val) ==
    LET n == Cardinality(I)
    IN IF n % 2 = 1 THEN KthSmallest(I, val, (n + 1) \div 2)
       ELSE (KthSmallest(I, val, n \div 2) + KthSmallest(I, val, n \div 2 + 1)) \div 2

\* C8: whenever fewer than two images of the most common size remain (zero
\* or one), create_background_map returns None with a warning, does not
\* raise, and saves no background file.
C8_FewerThanTwoReturnsNone ==
    (bgResult.called /\ RemainingCount(bgInput) < 2)
        => /\ bgResult.raised = None
           /\ bgResult.ret = NonePath
           /\ bgResult.warned
           /\ bgResult.saved = NoImage

\* C9: when at least two images of the most common size remain, every value
\* of the saved image is the median, over the images of that size alone, of
\* the values at that pixel and channel (the mean of the two middle values
\* cut to an integer for an even number), and lies in 0..255.
C9_PerChannelMedian ==
    (bgResult.called /\ RemainingCount(bgInput) >= 2)
        => LET sz == bgResult.saved.size
               I == {i \in 1..Len(bgInput) : bgInput[i].size = sz}
           IN /\ bgResult.raised = None
              /\ bgResult.ret # NonePath
              /\ Cardinality(I) = RemainingCount(bgInput)
              /\ DOMAIN bgResult.saved.data = 1..(sz[1] * sz[2] * Channels)
              /\ \A k \in DOMAIN bgResult.saved.data :
                    /\ bgResult.saved.data[k] =
                           TrueMedian(I, [i \in I |-> bgInput[i].data[k]])
                    /\ bgResult.saved.data[k] \in 0..255

\* C9 witness: of three images one has another size, and the two that remain
\* differ by an odd amount in some channel, so the mean has a fraction.
C9_Witness ==
    /\ bgResult.called
    /\ Len(bgInput) = 3
    /\ RemainingCount(bgInput) = 2
    /\ bgResult.ret # NonePath
    /\ \E i, j \in 1..3 :
          /\ i < j
          /\ bgInput[i].size = bgResult.saved.size
          /\ bgInput[j].size = bgResult.saved.size
          /\ (bgInput[i].data[1] + bgInput[j].data[1]) % 2 = 1

----------------------------------------------------------------------------
(* build_deck.py: the deck identifier and the record identifiers.  A string *)
(* is the sequence of its code points, so that joining, splitting and       *)
(* hashing act on what the string holds.                                    *)

\* str.join
RECURSIVE Join(_, _)
Join(sep, parts) ==
    IF parts = <<>> THEN <<>>
    ELSE IF Len(parts) = 1 THEN parts[1]
    ELSE parts[1] \o sep \o Join(sep, Tail(parts))

\* str() of a natural number: its decimal digits.
RECURSIVE Digits(_)
Digits(n) == IF n < 10 THEN <<48 + n>> ELSE Digits(n \div 10) \o <<48 + (n % 10)>>

\* A digest of a byte string.  It stands for SHA-512 and SHA-256, which are
\* functions of the bytes alone; this one folds the bytes into 20 bits.
RECURSIVE Digest(_)
Digest(bytes) ==
    IF bytes = <<>> THEN 7
    ELSE (Digest(SubSeq(bytes, 1, Len(bytes) - 1)) * 31 + bytes[Len(bytes)]) % 1048576

\* "Q<n>", the identifier of a Wikidata item.
QId(n) == <<81>> \o Digits(n)

StrCities == <<99, 105, 116, 105, 101, 115>>
StrSubdivisions == <<115, 117, 98, 100, 105, 118, 105, 115, 105, 111, 110, 115>>
LangEn == <<101, 110>>
LangDe == <<100, 101>>
LangDeCh == <<100, 101, 45, 99, 104>>

\* line 565
DECK_ID_BASE == 1290639408

\* line 252: the id of REGION_CITY_MODEL
REGION_CITY_MODEL_ID == 2056101586

\* line 417: the id of REGION_SUBDIVISION_MODEL
REGION_SUBDIVISION_MODEL_ID == 1175192202

\* lines 601-602: the sum of the digest's signed 32-bit words; negative sums occur.
RegionHashsum(hash_material) == Digest(hash_material) - 524288

\* lines 596-604: possible_ids = range(1 << 30, 1 << 31), so possible_ids[k]
\* is (1 << 30) + k and len(possible_ids) is 1 << 30.
DeckId(region, language, cities) ==
    LET hash_material ==
            Join(<<45, 45>>, <<region, language,
                               IF cities THEN StrCities ELSE StrSubdivisions>>)
    IN 1073741824 + ((DECK_ID_BASE + RegionHashsum(hash_material)) % 1073741824)

\* genanki.guid_for(*values): a digest of the values' strings joined by "__".
GuidFor(values) == Digest(Join(<<95, 95>>, values))

\* A guid over the first two fields, the labels.
GuidOverLabels(fields) == GuidFor(SubSeq(fields, 1, 2))

\* lines 556-562: guid_for(*self.fields[5:7]): WikidataId and Language.
RegionSubdivisionNoteGuid(fields) == GuidFor(SubSeq(fields, 6, 7))

\* lines 405-413: guid_for(model_id, self.fields[8], self.fields[9]).
RegionCityNoteGuid(fields) ==
    GuidFor(<<Digits(REGION_CITY_MODEL_ID), fields[9], fields[10]>>)

\* os.path.basename of a path: the folder is dropped.
Basename(path) == [stem |-> path.stem, ext |-> path.ext]

\* f'<img src="{os.path.basename(path)}">'
ImgTag(path) == [img_src |-> Basename(path)]

\* str() of a whole number, with its sign.
StrInt(n) == IF n < 0 THEN <<45>> \o Digits(0 - n) ELSE Digits(n)

\* str() of a float that holds a whole number of degrees: "12.0".
StrFloat(n) == StrInt(n) \o <<46, 48>>

\* The exponent of the leading bit of a whole number q >= 1.
RECURSIVE Log2Floor(_)
Log2Floor(q) == IF q < 2 THEN 0 ELSE 1 + Log2Floor(q \div 2)

\* 2^e modulo 20.
RECURSIVE Pow2Mod20(_)
Pow2Mod20(e) == IF e = 0 THEN 1 ELSE (2 * Pow2Mod20(e - 1)) % 20

\* The float num / unit in tenths, as the format :.1f rounds it (unit is 1000
\* or 1000000, num >= unit).  A quotient that is not halfway between two
\* tenths goes to the nearer one.  A quotient halfway is n / 20 with n odd:
\* if 5 divides n the float holds it exactly and the even tenth is taken;
\* if not, the float is the 53-bit number nearest to n / 20, above it or
\* below it by the remainder of n * 2^e modulo 20, and the tenth on the
\* float's side is taken.
RoundedTenths(num, unit) ==
    LET whole == num \div unit
        down == whole * 10 + ((num % unit) * 10) \div unit
        rem == ((num % unit) * 10) % unit
        n == num \div (unit \div 20)
        float_above == ((n % 20) * Pow2Mod20(52 - Log2Floor(whole))) % 20 > 10
    IN IF 2 * rem > unit THEN down + 1
       ELSE IF 2 * rem < unit THEN down
       ELSE IF n % 5 = 0 THEN (IF down % 2 = 1 THEN down + 1 ELSE down)
       ELSE IF float_above THEN down + 1
       ELSE down

\* lines 241-248
MakeLegibleNumber(num) ==
    IF num >= 1000000
    THEN LET tenths == RoundedTenths(num, 1000000)
         IN Digits(tenths \div 10) \o <<46>> \o Digits(tenths % 10) \o <<77>>
    ELSE IF num >= 1000
    THEN LET tenths == RoundedTenths(num, 1000)
         IN Digits(tenths \div 10) \o <<46>> \o Digits(tenths % 10) \o <<107>>
    ELSE StrInt(num)

\* lines 698-708: the fields of a RegionSubdivisionNote.
SubdivisionFields(subdivision_label, label_of_region, capital_label, smallest_map, background, id, language, wikilink) ==
    <<subdivision_label, label_of_region, capital_label, ImgTag(smallest_map),
      ImgTag(background), id, language, wikilink>>

\* lines 645-660: the fields of a RegionCityNote.
CityFields(city_label, label_of_region, superdivision_label, population, rank, file_name, region_file_name, id, language, wikilink, latitude, longitude) ==
    <<city_label, label_of_region, superdivision_label, StrInt(population),
      MakeLegibleNumber(population), StrInt(rank), ImgTag(file_name),
      ImgTag(region_file_name), id, language, wikilink, StrFloat(latitude),
      StrFloat(longitude)>>

(* Two runs of main with the same region, language and mode, each building  *)
(* the record of the same entity from what the knowledge graph holds at the *)
(* time of the run.                                                         *)

RegionIds == {QId(30), QId(183)}
EntityIds == {QId(64), QId(1055)}
Languages == {LangEn, LangDeCh}

\* What a run reads for the record besides the entity's id.
RunDataFirst ==
    [label |-> <<65>>, region_label |-> <<82>>, other_label |-> <<>>,
     population |-> 900, rank |-> 1, image |-> Path("folder", <<65>>, "png"),
     wikilink |-> <<119>>, latitude |-> -45, longitude |-> 170]

RunDataOther ==
    [label |-> <<66>>, region_label |-> <<83>>, other_label |-> <<67>>,
     population |-> 1960000, rank |-> 2, image |-> Path("folder", <<66>>, "svg"),
     wikilink |-> <<120>>, latitude |-> 60, longitude |-> -170]

\* Every part may differ from one run to the next, alone or with the others.
RunData ==
    {RunDataFirst, RunDataOther}
        \cup {[RunDataFirst EXCEPT ![f] = RunDataOther[f]] : f \in DOMAIN RunDataFirst}

\* "-for-cities", the end of the name of the region's map (line 616).
StrForCities == <<45, 102, 111, 114, 45, 99, 105, 116, 105, 101, 115>>

\* The record a run builds for the entity.  In cities mode the maps are
\* named after the region and the city (lines 616 and 627); in subdivisions
\* mode the locator map is named after the subdivision's label (lines 203-208
\* and 669) and the background after the region's (line 237).
RunFields(run_args, entity, d) ==
    IF run_args.cities
    THEN CityFields(d.label, d.region_label, d.other_label, d.population, d.rank,
                    Path("folder", run_args.region \o <<45>> \o entity, "png"),
                    Path("folder", run_args.region \o StrForCities, "png"), entity,
                    run_args.language, d.wikilink, d.latitude, d.longitude)
    ELSE SubdivisionFields(d.label, d.region_label, d.other_label,
                           Path("folder", d.label, d.image.ext),
                           Path("folder", d.region_label, "png"), entity,
                           run_args.language, d.wikilink)

\* The note's guid property, by the note's class.
NoteGuid(cities, fields) ==
    IF cities THEN RegionCityNoteGuid(fields) ELSE RegionSubdivisionNoteGuid(fields)

IdsInit ==
    /\ idArgs \in [region : RegionIds, language : Languages, cities : BOOLEAN]
    /\ idEntity \in EntityIds
    /\ idRuns = [r \in 1..2 |-> NoRun]
    /\ BBoxIdle
    /\ SubdivIdle
    /\ BgIdle
    /\ MainIdle
    /\ HelpersIdle

\* Run r computes the deck id (lines 596-604) and builds the entity's record
\* (lines 643-662 or 696-710) from the data it reads.
RunIdentifiers(r) ==
    /\ idArgs.region # <<>>
    /\ ~idRuns[r].done
    /\ \E d \in RunData :
          LET fields == RunFields(idArgs, idEntity, d)
          IN idRuns' = [idRuns EXCEPT ![r] =
                 [done |-> TRUE,
                  deck_id |-> DeckId(idArgs.region, idArgs.language, idArgs.cities),
                  fields |-> fields,
                  guid |-> NoteGuid(idArgs.cities, fields)]]
    /\ UNCHANGED <<idArgs, idEntity, bbVars, sdVars, bgVars, mainVars, helperVars>>

IdsNext == \E r \in 1..2 : RunIdentifiers(r)

SpecIds == IdsInit /\ [][IdsNext]_vars

\* C2: two runs with the same region identifier, locale and mode give the
\* same deck identifier and, for the same entity, the same record identifier,
\* whatever the other record data of the two runs; the identifiers lie in
\* the range the code draws them from.
C2_IdentifiersStable ==
    (idRuns[1].done /\ idRuns[2].done)
        => /\ idRuns[1].deck_id = idRuns[2].deck_id
           /\ idRuns[1].guid = idRuns[2].guid
           /\ idRuns[1].deck_id >= 1073741824

\* C2 witness: both runs are done and every part of the record that a run
\* reads from the knowledge graph differs between them.
C2_Witness ==
    /\ idRuns[1].done
    /\ idRuns[2].done
    /\ \A k \in 1..5 : idRuns[1].fields[k] # idRuns[2].fields[k]
    /\ idRuns[1].fields[8] # idRuns[2].fields[8]
    /\ idRuns[1].fields[6] = idRuns[2].fields[6]

----------------------------------------------------------------------------
(* build_deck.py: what a run of main reads from the knowledge graph, and   *)
(* the helpers that resolve labels, links and locator maps.                *)

\* The bound on the number of children (subdivisions or cities) of the region.
MaxChildren == 2

\* The bound on the consecutive incomplete reads of one download.
MaxRetries == 1

\* '-' in language
HasDash(language) == \E i \in 1..Len(language) : language[i] = 45

\* language.split('-')[0]
SplitFirst(language) ==
    LET first == CHOOSE i \in 1..Len(language) :
                     language[i] = 45 /\ \A j \in 1..(i - 1) : language[j] # 45
    IN IF HasDash(language) THEN SubSeq(language, 1, first - 1) ELSE language

\* language.replace('-', '_')
ReplaceDash(language) ==
    [i \in 1..Len(language) |-> IF language[i] = 45 THEN 95 ELSE language[i]]

\* str(entity.label): the English text, or else the first text there is.  A
\* label is <<language, text>> pairs in the order the entity holds them.
DefaultLabel(label) ==
    IF \E i \in 1..Len(label) : label[i][1] = LangEn
    THEN label[CHOOSE i \in 1..Len(label) : label[i][1] = LangEn][2]
    ELSE label[1][2]

\* entity.label[language], where the label has a text in that language.
HasLabelIn(label, language) == \E i \in 1..Len(label) : label[i][1] = language
LabelIn(label, language) ==
    label[CHOOSE i \in 1..Len(label) : label[i][1] = language][2]

\* lines 77-88
RECURSIVE TryGetLabelIn(_, _)
TryGetLabelIn(label, language) ==
    IF language = NoneStr THEN DefaultLabel(label)
    ELSE IF HasLabelIn(label, language) THEN LabelIn(label, language)
    ELSE TryGetLabelIn(label,
             IF HasDash(language) THEN SplitFirst(language) ELSE NoneStr)

\* lines 91-105.  The sitelinks are <<sitename, url>> pairs in the order of
\* entity.data['sitelinks']; with no sitelink at all, next() on the empty
\* iterator raises StopIteration (line 93).
RECURSIVE TryGetWikilinkIn(_, _)
TryGetWikilinkIn(sitelinks, language) ==
    IF language = NoneStr
    THEN IF sitelinks = <<>>
         THEN [raised |-> "StopIteration", url |-> NoneStr]
         ELSE [raised |-> None, url |-> sitelinks[1][2]]
    ELSE LET sitename == ReplaceDash(language) \o <<119, 105, 107, 105>>
         IN IF \E i \in 1..Len(sitelinks) : sitelinks[i][1] = sitename
            THEN [raised |-> None,
                  url |-> sitelinks[CHOOSE i \in 1..Len(sitelinks) :
                                        sitelinks[i][1] = sitename][2]]
            ELSE TryGetWikilinkIn(sitelinks,
                     IF HasDash(language) THEN SplitFirst(language)
                     ELSE IF language = LangEn THEN NoneStr
                     ELSE LangEn)

\* The URL of an image of an entity; url.split('.')[-1] is its ext.
Url(id, ext) == [of |-> id, ext |-> ext]

\* lines 185-199: the first SVG map, else the first map, else None.  Without
\* an SVG map the English label is read first (line 194), which raises
\* KeyError when the entity has none.
GetLocatorMapUrl(entity) ==
    LET urls == entity.maps
        svg_urls == SelectSeq(urls, LAMBDA u : u.ext = "svg")
    IN IF svg_urls # <<>> THEN [raised |-> None, url |-> svg_urls[1]]
       ELSE IF ~HasLabelIn(entity.label, LangEn)
       THEN [raised |-> "KeyError", url |-> NoneUrl]
       ELSE IF urls # <<>> THEN [raised |-> None, url |-> urls[1]]
       ELSE [raised |-> None, url |-> NoneUrl]

\* lines 203-208: the names of the downloaded file and of its raster.
OriginMap(url, image_folder, filename) == Path(image_folder, filename, url.ext)
RasterMap(url, image_folder, filename) ==
    IF url.ext = "svg" THEN Path(image_folder, filename, "png")
    ELSE OriginMap(url, image_folder, filename)

EnWiki == <<101, 110, 119, 105, 107, 105>>
DeWiki == <<100, 101, 119, 105, 107, 105>>

\* No capital: entity.get(CAPITAL) is None, or raises DatavalueError, which
\* try_get_string_property turns into None (lines 63-74).
NoCapital == <<>>

\* The subdivisions the knowledge graph may list under the region.
SubdivisionPool ==
    { [id |-> QId(64),
       label |-> <<<<LangEn, <<65>>>>, <<LangDe, <<65, 100>>>>>>,
       maps |-> <<Url(QId(64), "svg")>>,
       capital |-> <<<<LangEn, <<67>>>>>>,
       sitelinks |-> <<<<EnWiki, <<119, 49>>>>>>,
       inception |-> <<"missing">>, start_time |-> <<"missing">>,
       dissolved |-> <<"missing">>, end_time |-> <<"missing">>],
      [id |-> QId(1055),
       label |-> <<<<LangEn, <<65>>>>>>,
       maps |-> <<Url(QId(1055), "png"), Url(QId(1055), "svg")>>,
       capital |-> NoCapital,
       sitelinks |-> <<<<DeWiki, <<119, 50>>>>>>,
       inception |-> <<"year", 2020>>, start_time |-> <<"missing">>,
       dissolved |-> <<"missing">>, end_time |-> <<"unreadable">>],
      [id |-> QId(3),
       label |-> <<<<LangEn, <<66>>>>>>,
       maps |-> <<Url(QId(3), "png")>>,
       capital |-> NoCapital,
       sitelinks |-> <<<<DeWiki, <<119, 51>>>>>>,
       inception |-> <<"missing">>, start_time |-> <<"missing">>,
       dissolved |-> <<"missing">>, end_time |-> <<"missing">>],
      [id |-> QId(4),
       label |-> <<<<LangEn, <<68>>>>>>,
       maps |-> <<>>,
       capital |-> <<<<LangEn, <<67>>>>>>,
       sitelinks |-> <<<<EnWiki, <<119, 52>>>>>>,
       inception |-> <<"missing">>, start_time |-> <<"missing">>,
       dissolved |-> <<"missing">>, end_time |-> <<"missing">>],
      [id |-> QId(5),
       label |-> <<<<LangEn, <<69>>>>>>,
       maps |-> <<Url(QId(5), "svg")>>,
       capital |-> NoCapital,
       sitelinks |-> <<<<EnWiki, <<119, 53>>>>>>,
       inception |-> <<"missing">>, start_time |-> <<"missing">>,
       dissolved |-> <<"date", 2019, 12, 31>>, end_time |-> <<"missing">>],
      [id |-> QId(8),
       label |-> <<<<LangEn, <<71>>>>>>,
       maps |-> <<Url(QId(8), "svg")>>,
       capital |-> NoCapital,
       sitelinks |-> <<>>,
       inception |-> <<"missing">>, start_time |-> <<"missing">>,
       dissolved |-> <<"missing">>, end_time |-> <<"missing">>],
      [id |-> QId(7),
       label |-> <<<<LangDe, <<70>>>>>>,
       maps |-> <<Url(QId(7), "png")>>,
       capital |-> NoCapital,
       sitelinks |-> <<<<EnWiki, <<119, 55>>>>>>,
       inception |-> <<"missing">>, start_time |-> <<"missing">>,
       dissolved |-> <<"missing">>, end_time |-> <<"missing">>] }

\* The subdivision of the pool with the given item number.
SubdivisionOf(n) == CHOOSE sub \in SubdivisionPool : sub.id = QId(n)

\* Longer child lists: two subdivisions with maps and a third without one;
\* a subdivision listed twice around another; two subdivisions of one label
\* and a third.
LongerChildLists ==
    { <<SubdivisionOf(64), SubdivisionOf(3), SubdivisionOf(4)>>,
      <<SubdivisionOf(64), SubdivisionOf(3), SubdivisionOf(64)>>,
      <<SubdivisionOf(64), SubdivisionOf(1055), SubdivisionOf(3)>> }

\* A subdivision whose inception is the int 0, which datetime.date refuses.
SubdivisionOfYearZero ==
    [id |-> QId(9),
     label |-> <<<<LangEn, <<72>>>>>>,
     maps |-> <<Url(QId(9), "svg")>>,
     capital |-> NoCapital,
     sitelinks |-> <<<<EnWiki, <<119, 57>>>>>>,
     inception |-> <<"year", 0>>, start_time |-> <<"missing">>,
     dissolved |-> <<"missing">>, end_time |-> <<"missing">>]

\* Child lists with that subdivision: alone, last and first.
ChildListsWithYearZero ==
    { <<SubdivisionOfYearZero>>,
      <<SubdivisionOf(3), SubdivisionOfYearZero>>,
      <<SubdivisionOfYearZero, SubdivisionOf(3)>> }

\* No coordinates: city.get(COORDINATES) is None.
NoCoordinates == <<>>

\* No superdivision: entity.getlist(SUPERDIVISIONS) is empty (lines 180-182).
NoSuperdivision == <<>>

\* The cities get_top_cities may return (lines 138-147), each with what the
\* knowledge graph holds for it.
CityPool ==
    { [city_id |-> QId(64), population |-> 2500000,
       label |-> <<<<LangEn, <<65>>>>, <<LangDe, <<65, 100>>>>>>,
       coordinates |-> <<60, 170>>,
       superdivision |-> <<<<LangEn, <<83>>>>>>,
       sitelinks |-> <<<<EnWiki, <<119, 49>>>>>>],
      [city_id |-> QId(1055), population |-> 1050,
       label |-> <<<<LangEn, <<66>>>>>>,
       coordinates |-> <<-45, -170>>,
       superdivision |-> NoSuperdivision,
       sitelinks |-> <<<<DeWiki, <<119, 50>>>>, <<EnWiki, <<119, 51>>>>>>],
      [city_id |-> QId(3), population |-> 900,
       label |-> <<<<LangEn, <<67>>>>>>,
       coordinates |-> <<60, -100>>,
       superdivision |-> NoSuperdivision,
       sitelinks |-> <<>>],
      [city_id |-> QId(4), population |-> 900,
       label |-> <<<<LangEn, <<68>>>>>>,
       coordinates |-> NoCoordinates,
       superdivision |-> NoSuperdivision,
       sitelinks |-> <<<<EnWiki, <<119, 52>>>>>>] }

\* The images a downloaded locator map may hold.
MainImages == {FlatImage(10), MkImage(<<2, 1>>, 0)}

\* The sizes in bytes a file may have.
FileSizes == {1, 2}

\* The content of a file of the image folder: the URL it was downloaded or
\* converted from, its size in bytes, and the image it holds.
FileContent(of, bytes, img) == [of |-> of, bytes |-> bytes, img |-> img]

\* A raster left in the image folder by an earlier run.
StaleName == [stem |-> <<65>>, ext |-> "png"]
StaleContent == FileContent(Url(<<>>, "png"), 1, FlatImage(20))

----------------------------------------------------------------------------
(* build_deck.py: one run of main.  pc is "start" before the region is     *)
(* resolved, "collect" and "download" in the first loop of subdivisions    *)
(* mode, "records" in its second loop, "get_cities", "region_map" and      *)
(* "cities" in cities mode, "done" after the package is written and        *)
(* "failed" after an exception has ended the run.                          *)

otherVars == <<bbVars, sdVars, bgVars, idVars, helperVars>>

RegionLabel == <<<<LangEn, <<82>>>>, <<LangDe, <<82, 100>>>>>>

MainInit ==
    /\ args \in [region : {QId(30)}, language : Languages, cities : BOOLEAN,
                 image_folder : {"folder"}]
    /\ kg \in [label : {RegionLabel},
               children : SeqsUpTo(SubdivisionPool, MaxChildren)
                              \cup LongerChildLists \cup ChildListsWithYearZero,
               cities : SeqsUpTo(CityPool, MaxChildren),
               today : {<<2020, 6, 15>>}]
    /\ IF args.cities THEN kg.children = <<>> ELSE kg.cities = <<>>
    /\ pc = "start"
    /\ idx = 0
    /\ retries = 0
    /\ region_label = <<>>
    /\ deck_id = 0
    /\ deck = NoDeck
    /\ media_files = <<>>
    /\ subdivision_maps = <<>>
    /\ background_map = NonePath
    /\ files \in {<<>>, StaleName :> StaleContent}
    /\ package = <<>>
    /\ failure = NoFailure
    /\ BBoxIdle
    /\ SubdivIdle
    /\ BgIdle
    /\ IdsIdle
    /\ HelpersIdle

\* line 666: the subdivisions the first loop goes through.
ValidSubdivisions == GetSubdivisions(kg.children, kg.today)

\* A loop that ends before its list does.
LoopDoneEarly(i, list) == i >= 1

\* A for loop at position i of its list has run out.
LoopDone(i, list) == i > Len(list)

\* lines 712-713 are reached: the loop of the mode has run out.
ReadyToWrite ==
    \/ pc = "records" /\ LoopDone(idx, subdivision_maps)
    \/ pc = "cities" /\ LoopDone(idx, kg.cities)

\* media_files left as it was.
MediaWithoutMap(media, map) == media

\* lines 631 and 688: media_files.append(map)
MediaWithMap(media, map) == Append(media, map)

\* subdivision_maps[subdivision] = maps: an entity that is a key already
\* (Entity equality is by id) keeps its place and takes the new value.
DictSet(dict, subdivision, maps) ==
    IF \E i \in 1..Len(dict) : dict[i].key.id = subdivision.id
    THEN [i \in 1..Len(dict) |->
             IF dict[i].key.id = subdivision.id
             THEN [key |-> dict[i].key, maps |-> maps] ELSE dict[i]]
    ELSE Append(dict, [key |-> subdivision, maps |-> maps])

\* The run ends with an uncaught exception.
Fail(exc) ==
    /\ pc' = "failed"
    /\ failure' = [exc |-> exc, at |-> pc]

\* lines 579-604: the region is loaded, its label resolved, the deck id computed.
Start ==
    /\ pc = "start"
    /\ region_label' = TryGetLabelIn(kg.label, args.language)
    /\ deck_id' = DeckId(args.region, args.language, args.cities)
    /\ pc' = IF args.cities THEN "get_cities" ELSE "collect"
    /\ idx' = 1
    /\ UNCHANGED <<args, kg, retries, deck, media_files, subdivision_maps,
                   background_map, files, package, failure, otherVars>>

\* A call to the knowledge graph, the query service, the image server, the
\* renderer or the converter raises before the step at hand has changed
\* anything, and nothing catches it.  (A raise in the middle of a step is
\* part of that step's action.)
ExternalError ==
    /\ pc \in {"start", "get_cities", "region_map", "cities", "collect", "download",
              "records"}
    /\ ~ReadyToWrite
    /\ Fail("ExternalError")
    /\ UNCHANGED <<args, kg, idx, retries, region_label, deck_id, deck, media_files,
                   subdivision_maps, background_map, files, package, otherVars>>

\* lines 666-671: the next subdivision's label and locator map URL; without
\* a map the loop goes on to the next one.  When the generator raises
\* instead of giving a next subdivision, the ValueError ends the run.
CollectSubdivision ==
    /\ pc = "collect"
    /\ idx <= Len(ValidSubdivisions) \/ GetSubdivisionsRaises(kg.children)
    /\ LET found == GetLocatorMapUrl(ValidSubdivisions[idx])
       IN IF idx > Len(ValidSubdivisions)
          THEN Fail("ValueError") /\ UNCHANGED <<idx, retries>>
          ELSE IF found.raised # None
          THEN Fail(found.raised) /\ UNCHANGED <<idx, retries>>
          ELSE IF found.url = NoneUrl
          THEN idx' = idx + 1 /\ UNCHANGED <<pc, retries, failure>>
          ELSE pc' = "download" /\ retries' = 0 /\ UNCHANGED <<idx, failure>>
    /\ UNCHANGED <<args, kg, region_label, deck_id, deck, media_files,
                   subdivision_maps, background_map, files, package, otherVars>>

\* lines 209-218: the read is incomplete and the loop requests again.
IncompleteRead ==
    /\ pc = "download"
    /\ retries < MaxRetries
    /\ retries' = retries + 1
    /\ UNCHANGED <<args, kg, pc, idx, region_label, deck_id, deck, media_files,
                   subdivision_maps, background_map, files, package, failure,
                   otherVars>>

\* What running resvg may come to: a raster, no raster (its exit status is
\* not looked at), or FileNotFoundError from subprocess.run when there is no
\* such program.
ConverterOutcomes == {"raster", "nothing", "absent"}

\* lines 202-223 and 672: the read completes, the origin file is written, an
\* SVG is converted unless a raster of that name exists, and the pair of
\* names goes into subdivision_maps.  Without the converter the run ends
\* with the origin file written.
DownloadLocatorMap ==
    /\ pc = "download"
    /\ LET subdivision == ValidSubdivisions[idx]
           url == GetLocatorMapUrl(subdivision).url
           filename == TryGetLabelIn(subdivision.label, args.language)
           origin_map == OriginMap(url, args.image_folder, filename)
           raster_map == RasterMap(url, args.image_folder, filename)
           converting ==
               /\ origin_map.ext = "svg"
               /\ Basename(raster_map) \notin (DOMAIN files \cup {Basename(origin_map)})
       IN \E bytes \in FileSizes, img \in MainImages,
             raster_bytes \in IF converting THEN FileSizes ELSE {1},
             resvg \in IF converting THEN ConverterOutcomes ELSE {"nothing"} :
             LET written == (Basename(origin_map) :> FileContent(url, bytes, img)) @@ files
             IN IF converting /\ resvg = "absent"
                THEN /\ files' = written
                     /\ Fail("FileNotFoundError")
                     /\ UNCHANGED <<idx, subdivision_maps>>
                ELSE /\ files' =
                            IF converting /\ resvg = "raster"
                            THEN (Basename(raster_map) :>
                                     FileContent(url, raster_bytes, img)) @@ written
                            ELSE written
                     /\ subdivision_maps' =
                            DictSet(subdivision_maps, subdivision, <<origin_map, raster_map>>)
                     /\ idx' = idx + 1
                     /\ pc' = "collect"
                     /\ UNCHANGED failure
    /\ UNCHANGED <<args, kg, retries, region_label, deck_id, deck, media_files,
                   background_map, package, otherVars>>

\* lines 674-683: the rasters are opened, the background is made and saved,
\* the deck is created and media_files starts with the background.
CreateBackground ==
    /\ pc = "collect"
    /\ idx > Len(ValidSubdivisions)
    /\ ~GetSubdivisionsRaises(kg.children)
    /\ LET rasters == [i \in 1..Len(subdivision_maps) |-> subdivision_maps[i].maps[2]]
       IN IF \E i \in 1..Len(rasters) : Basename(rasters[i]) \notin DOMAIN files
          THEN Fail("FileNotFoundError")
               /\ UNCHANGED <<idx, deck, media_files, background_map, files>>
          ELSE LET images == [i \in 1..Len(rasters) |-> files[Basename(rasters[i])].img]
                   made == CreateBackgroundMap(images, region_label, args.image_folder)
               IN IF made.raised # None
                  THEN Fail(made.raised)
                       /\ UNCHANGED <<idx, deck, media_files, background_map, files>>
                  ELSE /\ background_map' = made.ret
                       /\ files' =
                              IF made.ret = NonePath THEN files
                              ELSE (Basename(made.ret) :>
                                       FileContent(Url(args.region, "png"), 1, made.saved))
                                   @@ files
                       /\ deck' = [deck_id |-> deck_id,
                                   name |-> <<"Administrative Subdivisions of ",
                                              region_label>>,
                                   notes |-> <<>>]
                       /\ media_files' = <<made.ret>>
                       /\ pc' = "records"
                       /\ idx' = 1
                       /\ UNCHANGED failure
    /\ UNCHANGED <<args, kg, retries, region_label, deck_id, subdivision_maps,
                   package, otherVars>>

\* lines 685-710: one turn of the second loop.  os.stat raises for a map
\* that is not there; os.path.basename(None) raises TypeError (line 704).
\* Loading the capital for its label (line 694) may raise, after the map
\* went into media_files (line 688).
BuildSubdivisionRecord ==
    /\ pc = "records"
    /\ idx <= Len(subdivision_maps)
    /\ LET subdivision == subdivision_maps[idx].key
           maps == subdivision_maps[idx].maps
       IN IF \E i \in 1..2 : Basename(maps[i]) \notin DOMAIN files
          THEN Fail("FileNotFoundError") /\ UNCHANGED <<idx, deck, media_files>>
          ELSE LET subdivision_label == TryGetLabelIn(subdivision.label, args.language)
                   smallest_map ==
                       IF files[Basename(maps[2])].bytes < files[Basename(maps[1])].bytes
                       THEN maps[2] ELSE maps[1]
                   capital_label ==
                       IF subdivision.capital = NoCapital THEN <<>>
                       ELSE TryGetLabelIn(subdivision.capital, args.language)
                   wikilink == TryGetWikilinkIn(subdivision.sitelinks, args.language)
                   fields ==
                       SubdivisionFields(subdivision_label, region_label, capital_label,
                                         smallest_map, background_map, subdivision.id,
                                         args.language, wikilink.url)
               IN /\ media_files' = MediaWithMap(media_files, smallest_map)
                  /\ \E capital_raises \in
                            IF subdivision.capital = NoCapital THEN {FALSE} ELSE BOOLEAN :
                     IF capital_raises
                     THEN Fail("ExternalError") /\ UNCHANGED <<idx, deck>>
                     ELSE IF background_map = NonePath
                     THEN Fail("TypeError") /\ UNCHANGED <<idx, deck>>
                     ELSE IF wikilink.raised # None
                     THEN Fail(wikilink.raised) /\ UNCHANGED <<idx, deck>>
                     ELSE /\ deck' = [deck EXCEPT !.notes =
                                 Append(@, [model |-> REGION_SUBDIVISION_MODEL_ID,
                                            fields |-> fields,
                                            guid |-> RegionSubdivisionNoteGuid(fields)])]
                          /\ idx' = idx + 1
                          /\ UNCHANGED <<pc, failure>>
    /\ UNCHANGED <<args, kg, retries, region_label, deck_id, subdivision_maps,
                   background_map, files, package, otherVars>>

\* lines 608-611: the cities are fetched and the deck is created.
GetTopCities ==
    /\ pc = "get_cities"
    /\ deck' = [deck_id |-> deck_id, name |-> <<"Cities of ", region_label>>,
                notes |-> <<>>]
    /\ pc' = "region_map"
    /\ UNCHANGED <<args, kg, idx, retries, region_label, deck_id, media_files,
                   subdivision_maps, background_map, files, package, failure,
                   otherVars>>

\* lines 616-619: the region's map is rendered and media_files starts with it.
MakeRegionMap ==
    /\ pc = "region_map"
    /\ \E bytes \in FileSizes :
          LET region_file_name ==
                  Path(args.image_folder, args.region \o StrForCities, "png")
          IN /\ files' = (Basename(region_file_name) :>
                             FileContent(Url(args.region, "png"), bytes, FlatImage(20)))
                         @@ files
             /\ media_files' = <<region_file_name>>
    /\ pc' = "cities"
    /\ idx' = 1
    /\ UNCHANGED <<args, kg, retries, region_label, deck_id, deck, subdivision_maps,
                   background_map, package, failure, otherVars>>

\* lines 622-662: one turn of the loop over the cities.  Without coordinates
\* coordinates.latitude raises AttributeError before the map is made (line
\* 628); the link is resolved after the map is in media_files.  Loading the
\* superdivision for its label (line 637) may raise, after the map was made
\* and went into media_files (lines 628-631).
BuildCityRecord ==
    /\ pc = "cities"
    /\ idx <= Len(kg.cities)
    /\ LET city == kg.cities[idx]
           city_label == TryGetLabelIn(city.label, args.language)
           file_name == Path(args.image_folder,
                             args.region \o <<45>> \o city.city_id, "png")
           region_file_name ==
               Path(args.image_folder, args.region \o StrForCities, "png")
           superdivision_label ==
               IF city.superdivision = NoSuperdivision THEN NoneStr
               ELSE TryGetLabelIn(city.superdivision, args.language)
           wikilink == TryGetWikilinkIn(city.sitelinks, args.language)
       IN IF city.coordinates = NoCoordinates
          THEN Fail("AttributeError") /\ UNCHANGED <<idx, deck, media_files, files>>
          ELSE /\ \E bytes \in FileSizes :
                     files' = (Basename(file_name) :>
                                  FileContent(Url(city.city_id, "png"), bytes,
                                              FlatImage(20)))
                              @@ files
               /\ media_files' = MediaWithMap(media_files, file_name)
               /\ \E superdivision_raises \in
                         IF city.superdivision = NoSuperdivision THEN {FALSE}
                         ELSE BOOLEAN :
                  IF superdivision_raises
                  THEN Fail("ExternalError") /\ UNCHANGED <<idx, deck>>
                  ELSE IF wikilink.raised # None
                  THEN Fail(wikilink.raised) /\ UNCHANGED <<idx, deck>>
                  ELSE LET fields ==
                               CityFields(city_label, region_label, superdivision_label,
                                          city.population, idx, file_name,
                                          region_file_name, city.city_id, args.language,
                                          wikilink.url, city.coordinates[1],
                                          city.coordinates[2])
                       IN /\ deck' = [deck EXCEPT !.notes =
                                 Append(@, [model |-> REGION_CITY_MODEL_ID,
                                            fields |-> fields,
                                            guid |-> RegionCityNoteGuid(fields)])]
                          /\ idx' = idx + 1
                          /\ UNCHANGED <<pc, failure>>
    /\ UNCHANGED <<args, kg, retries, region_label, deck_id, subdivision_maps,
                   background_map, package, otherVars>>

\* lines 712-714: the package of the deck and the media files is written to
\* deck_name + '.apkg'.
WritePackage ==
    /\ ReadyToWrite
    /\ package' = Append(package, [file |-> <<deck.name, ".apkg">>, deck |-> deck,
                                   media_files |-> media_files, complete |-> TRUE])
    /\ pc' = "done"
    /\ UNCHANGED <<args, kg, idx, retries, region_label, deck_id, deck, media_files,
                   subdivision_maps, background_map, files, failure, otherVars>>

\* lines 712-714: write_to_file raises; what it has put on disk by then is
\* the library's matter: no file, or a file that is not complete.
WritePackageFails ==
    /\ ReadyToWrite
    /\ \/ UNCHANGED package
       \/ package' = Append(package, [file |-> <<deck.name, ".apkg">>, deck |-> deck,
                                      media_files |-> media_files, complete |-> FALSE])
    /\ pc' = "failed"
    /\ failure' = [exc |-> "ExternalError", at |-> "write"]
    /\ UNCHANGED <<args, kg, idx, retries, region_label, deck_id, deck, media_files,
                   subdivision_maps, background_map, files, otherVars>>

Next ==
    \/ Start
    \/ ExternalError
    \/ CollectSubdivision
    \/ IncompleteRead
    \/ DownloadLocatorMap
    \/ CreateBackground
    \/ BuildSubdivisionRecord
    \/ GetTopCities
    \/ MakeRegionMap
    \/ BuildCityRecord
    \/ WritePackage
    \/ WritePackageFails

Spec == MainInit /\ [][Next]_vars

\* The entities the run builds a record for: the cities fetched, or the
\* subdivisions for which a locator map was obtained.
RecordCount == IF args.cities THEN Len(kg.cities) ELSE Len(subdivision_maps)

\* C1: the package is written at most once, and only after every record of
\* the run is in the deck; a run that an exception ended before the write
\* has written none.
C1_PackageWrittenOnceAfterAllRecords ==
    /\ Len(package) <= 1
    /\ (pc = "failed" /\ failure.at # "write") => package = <<>>
    /\ pc = "done" => (failure = NoFailure /\ Len(package) = 1)
    /\ package # <<>> =>
          /\ pc = "done" \/ (pc = "failed" /\ failure.at = "write")
          /\ package[1].deck = deck
          /\ Len(package[1].deck.notes) = RecordCount
          /\ \A k \in 1..RecordCount :
                IF args.cities
                THEN package[1].deck.notes[k].fields[9] = kg.cities[k].city_id
                ELSE package[1].deck.notes[k].fields[6] = subdivision_maps[k].key.id

\* C1 witness: a run in subdivisions mode has written its package with the
\* records of two subdivisions.
C1_Witness ==
    /\ pc = "done"
    /\ ~args.cities
    /\ Len(package) = 1
    /\ Len(package[1].deck.notes) = 2

\* The image tags among the fields of a note.
ImageFields(note) ==
    IF note.model = REGION_CITY_MODEL_ID
    THEN {note.fields[7], note.fields[8]}
    ELSE {note.fields[4], note.fields[5]}

\* C3: when the package is serialized, every image a record refers to is
\* the base name of a file in the media file list handed to the package.
C3_ReferencedImagesAreBundled ==
    \A i \in 1..Len(package) :
        \A k \in 1..Len(package[i].deck.notes) :
            \A tag \in ImageFields(package[i].deck.notes[k]) :
                \E m \in 1..Len(package[i].media_files) :
                    /\ package[i].media_files[m] # NonePath
                    /\ Basename(package[i].media_files[m]) = tag.img_src
                    /\ tag.img_src \in DOMAIN files

\* C3 witness: a package was written in subdivisions mode whose two records
\* refer to different map images, one of them a raster made from an SVG.
C3_Witness ==
    /\ pc = "done"
    /\ ~args.cities
    /\ Len(package) = 1
    /\ Len(package[1].deck.notes) = 2
    /\ package[1].deck.notes[1].fields[4] # package[1].deck.notes[2].fields[4]
    /\ \E k \in 1..2 :
          /\ package[1].deck.notes[k].fields[4].img_src.ext = "png"
          /\ subdivision_maps[k].maps[1].ext = "svg"

\* The Wikidata id a note carries: field WikidataId of its model.
EntityIdOf(note) ==
    IF note.model = REGION_CITY_MODEL_ID THEN note.fields[9] ELSE note.fields[6]

\* The position of the last child of the list that has the identifier.
LastInstance(list, id) ==
    Greatest({k \in 1..Len(list) : list[k].city_id = id})

\* C12: in both modes the deck handed to serialization holds at most one
\* record per entity identifier; of two children with one identifier only
\* the one processed last has a record.
C12_OneRecordPerEntity ==
    \A i \in 1..Len(package) :
        LET notes == package[i].deck.notes
        IN /\ \A j, k \in 1..Len(notes) :
                  j # k => EntityIdOf(notes[j]) # EntityIdOf(notes[k])
           /\ args.cities =>
                  \A j \in 1..Len(notes) :
                      notes[j].fields[6] =
                          Digits(LastInstance(kg.cities, EntityIdOf(notes[j])))

\* The identifiers of the children that pass the temporal filter.
ValidIds == {ValidSubdivisions[k].id : k \in 1..Len(ValidSubdivisions)}

\* The child of the identifier, as the knowledge graph holds it.
ValidChild(id) ==
    ValidSubdivisions[CHOOSE k \in 1..Len(ValidSubdivisions) : ValidSubdivisions[k].id = id]

\* C13: in subdivisions mode every child that passes the temporal filter
\* has exactly one record in the deck that is written, also a child without
\* a capital (its capital field is empty) and a child without a locator map.
C13_EveryValidChildHasOneRecord ==
    (~args.cities /\ pc # "idle") =>
        \A i \in 1..Len(package) :
            LET notes == package[i].deck.notes
            IN \A id \in ValidIds :
                  /\ Cardinality({k \in 1..Len(notes) : notes[k].fields[6] = id}) = 1
                  /\ \A k \in 1..Len(notes) :
                        (notes[k].fields[6] = id /\ ValidChild(id).capital = NoCapital)
                            => notes[k].fields[3] = <<>>

\* C16: in subdivisions mode the map image a record refers to is the file
\* obtained in this run for the record's own entity: downloaded from that
\* entity's locator map URL, or converted from that download.
C16_RecordImageIsOwnEntitys ==
    (~args.cities /\ pc # "idle") =>
        \A i \in 1..Len(package) :
            LET notes == package[i].deck.notes
            IN \A k \in 1..Len(notes) :
                  /\ notes[k].fields[4].img_src \in DOMAIN files
                  /\ files[notes[k].fields[4].img_src].of.of = notes[k].fields[6]

\* create_background_map has returned None in this run.
BackgroundIsNone ==
    /\ ~args.cities
    /\ background_map = NonePath
    /\ pc = "records" \/ pc = "done" \/ (pc = "failed" /\ failure.at = "records")

\* C10: in subdivisions mode, when background synthesis returns None, the
\* run recovers: unless something else fails, it ends with the package
\* written and with every subdivision's record built, the background left out.
C10_RecoversWithoutBackground ==
    (/\ BackgroundIsNone
     /\ pc \in {"done", "failed"}
     /\ failure.exc \notin {"ExternalError", "FileNotFoundError", "StopIteration"})
        => /\ pc = "done"
           /\ Len(package) = 1
           /\ Len(package[1].deck.notes) = Len(subdivision_maps)

----------------------------------------------------------------------------
(* make_map.py: bounding_box_for_points.  A point is <<lat, lon>> in whole *)
(* degrees.                                                                *)

\* The bound on the number of points handed to bounding_box_for_points.
MaxPoints == 3

Latitudes == {-45, 60}
Longitudes == {-180, -100, -10, 0, 100, 170, 180, 190, 350}
Points == Latitudes \X Longitudes

\* line 25: longitudes above 180 are brought down by a full turn.
NormalizedLongitudes(points) ==
    [i \in 1..Len(points) |->
        IF points[i][2] <= 180 THEN points[i][2] ELSE points[i][2] - 360]

\* line 31: the date-line branch is taken when the sorted longitudes span
\* more than 180 degrees from first to last.
CrossDateLine(points) ==
    LET sorted_longs == Sorted(NormalizedLongitudes(points))
    IN sorted_longs[Len(sorted_longs)] - sorted_longs[1] > 180

\* line 36-37: max over the tuples (gap, i), i in range(1, len): the largest
\* gap, and among equal gaps the largest index (tuples compare left to right).
\* The index is Python's, 0-based.
GapIndex(sorted_longs) ==
    LET n == Len(sorted_longs)
        gap(i) == sorted_longs[i + 1] - sorted_longs[i]
    IN CHOOSE i \in 1..(n - 1) :
           \A j \in 1..(n - 1) :
               \/ gap(j) < gap(i)
               \/ gap(j) = gap(i) /\ j <= i

\* A box that swaps the two sides of the gap: min_lon from the left part and
\* max_lon from the right part.
BoundingBoxSwappedSides(points) ==
    LET lats == [i \in 1..Len(points) |-> points[i][1]]
        longitudes == NormalizedLongitudes(points)
        sorted_longs == Sorted(NormalizedLongitudes(points))
        n == Len(sorted_longs)
    IN IF CrossDateLine(points)
       THEN LET gap_index == GapIndex(sorted_longs)
            IN <<MinOf(lats), MinOf(SubSeq(sorted_longs, 1, gap_index)),
                 MaxOf(lats), MaxOf(SubSeq(sorted_longs, gap_index + 1, n))>>
       ELSE <<MinOf(lats), MinOf(longitudes), MaxOf(lats), MaxOf(longitudes)>>

\* lines 11-53: (min_lat, min_lon, max_lat, max_lon) of a non-empty list.
BoundingBoxForPoints(points) ==
    LET lats == [i \in 1..Len(points) |-> points[i][1]]
        longitudes == NormalizedLongitudes(points)
        sorted_longs == Sorted(NormalizedLongitudes(points))
        n == Len(sorted_longs)
    IN IF CrossDateLine(points)
       THEN LET gap_index == GapIndex(sorted_longs)
                right_of_gap == SubSeq(sorted_longs, gap_index + 1, n)
                left_of_gap == SubSeq(sorted_longs, 1, gap_index)
            IN <<MinOf(lats), MinOf(right_of_gap), MaxOf(lats), MaxOf(left_of_gap)>>
       ELSE <<MinOf(lats), MinOf(longitudes), MaxOf(lats), MaxOf(longitudes)>>

BBoxInit ==
    /\ bbPoints \in SeqsUpTo(Points, MaxPoints)
    /\ bbResult = NotCalled
    /\ SubdivIdle
    /\ BgIdle
    /\ IdsIdle
    /\ MainIdle
    /\ HelpersIdle

\* One call of bounding_box_for_points(*bbPoints).  With no points, min() of
\* an empty sequence raises ValueError (line 21).
CallBoundingBox ==
    /\ ~bbResult.called
    /\ bbResult' = IF bbPoints = <<>>
                   THEN [called |-> TRUE, raised |-> "ValueError", box |-> <<>>,
                         cross |-> FALSE]
                   ELSE [called |-> TRUE, raised |-> None,
                         box |-> BoundingBoxForPoints(bbPoints),
                         cross |-> CrossDateLine(bbPoints)]
    /\ UNCHANGED <<bbPoints, sdVars, bgVars, idVars, mainVars, helperVars>>

BBoxNext == CallBoundingBox

SpecBBox == BBoxInit /\ [][BBoxNext]_vars

(* What the claims about the bounding box speak of, stated over the set of  *)
(* points and not through the function's own steps.                         *)

LatSet(points) == {points[i][1] : i \in 1..Len(points)}
RawLonSet(points) == {points[i][2] : i \in 1..Len(points)}
NormLonSet(points) == {IF l > 180 THEN l - 360 ELSE l : l \in RawLonSet(points)}

\* The pairs of neighbouring longitudes: no longitude of the set lies between.
Neighbours(L) == {p \in L \X L : p[1] < p[2] /\ ~\E c \in L : p[1] < c /\ c < p[2]}

\* The widest empty arc between two neighbouring longitudes (0 for one longitude).
WidestInnerGap(L) ==
    IF Neighbours(L) = {} THEN 0
    ELSE Greatest({p[2] - p[1] : p \in Neighbours(L)})

\* The empty arc that runs from the largest longitude through +/-180 to the smallest.
DateLineGap(L) == 360 - (Greatest(L) - Least(L))

\* Points on both sides of the date line, with the larger empty arc elsewhere.
Straddles(points) ==
    WidestInnerGap(NormLonSet(points)) > DateLineGap(NormLonSet(points))

\* Longitudes in [-180, 180] whose widest empty arc is the one through +/-180.
NoDateLineCrossing(points) ==
    /\ \A l \in RawLonSet(points) : -180 <= l /\ l <= 180
    /\ WidestInnerGap(RawLonSet(points)) <= DateLineGap(RawLonSet(points))

\* Two consecutive longitudes of the sorted normalized list are more than 180 apart.
HasGapOver180(points) == \E p \in Neighbours(NormLonSet(points)) : p[2] - p[1] > 180

\* C5: for a non-empty set of points that does not cross the date line the
\* function returns exactly the smallest and largest latitude and the smallest
\* and largest longitude of the points.
C5_TrueMinMax ==
    (bbResult.called /\ bbPoints # <<>> /\ NoDateLineCrossing(bbPoints))
        => bbResult.box = <<Least(LatSet(bbPoints)), Least(RawLonSet(bbPoints)),
                            Greatest(LatSet(bbPoints)), Greatest(RawLonSet(bbPoints))>>

\* C6: a set of points that straddles +/-180 gets a box whose min_lon is
\* strictly greater than its max_lon, and so does every call that takes the
\* date-line branch.
C6_DateLineBoxMinExceedsMax ==
    (bbResult.called /\ bbPoints # <<>>)
        => /\ Straddles(bbPoints) => bbResult.box[2] > bbResult.box[4]
           /\ bbResult.cross => bbResult.box[2] > bbResult.box[4]

\* C6 witness: the function has returned for a set that straddles the date line.
C6_Witness ==
    /\ bbResult.called
    /\ bbPoints # <<>>
    /\ Straddles(bbPoints)
    /\ bbResult.cross
    /\ Len(bbPoints) >= 3

\* C7: the date-line branch is taken exactly when two consecutive sorted
\* longitudes are more than 180 degrees apart; then the box runs from the
\* longitude after the largest gap to the longitude before it; in every other
\* case the result is the simple minimum and maximum longitude.
C7_BranchIffGapOver180 ==
    (bbResult.called /\ bbPoints # <<>>)
        => LET L == NormLonSet(bbPoints)
           IN /\ bbResult.cross <=> HasGapOver180(bbPoints)
              /\ HasGapOver180(bbPoints) =>
                    \E p \in Neighbours(L) :
                        /\ p[2] - p[1] = WidestInnerGap(L)
                        /\ bbResult.box[2] = p[2]
                        /\ bbResult.box[4] = p[1]
              /\ ~HasGapOver180(bbPoints) =>
                    /\ bbResult.box[2] = Least(L)
                    /\ bbResult.box[4] = Greatest(L)

----------------------------------------------------------------------------
(* build_deck.py: try_get_label_in and try_get_wikilink_in, one call of the *)
(* recursion per step.  The outermost call returns what the innermost       *)
(* returns, and an exception of the innermost call passes through all.      *)

LangZhHantTw == <<122, 104, 45, 104, 97, 110, 116, 45, 116, 119>>
LangZh == <<122, 104>>

\* The --language values of the calls.
Locales == {LangEn, LangDe, LangDeCh, LangZhHantTw}

\* The labels an entity may hold, as <<language, text>> pairs in order.
LabelPool ==
    { <<<<LangEn, <<69>>>>>>,
      <<<<LangDe, <<68>>>>>>,
      <<<<LangDe, <<68>>>>, <<LangEn, <<69>>>>>>,
      <<<<LangDeCh, <<67>>>>, <<LangDe, <<68>>>>>>,
      <<<<LangZh, <<90>>>>, <<LangEn, <<69>>>>>> }

DeChWiki == <<100, 101, 95, 99, 104, 119, 105, 107, 105>>
ZhWiki == <<122, 104, 119, 105, 107, 105>>

\* The sitelinks an entity may hold, as <<sitename, url>> pairs in order.
SitelinkPool ==
    { <<>>,
      <<<<EnWiki, <<119, 49>>>>>>,
      <<<<DeWiki, <<119, 50>>>>>>,
      <<<<DeWiki, <<119, 50>>>>, <<EnWiki, <<119, 49>>>>>>,
      <<<<DeChWiki, <<119, 51>>>>, <<DeWiki, <<119, 50>>>>>>,
      <<<<ZhWiki, <<119, 52>>>>>> }

\* lines 83-86: the fallback of try_get_label_in.
LabelFallback(language) ==
    IF HasDash(language) THEN SplitFirst(language) ELSE NoneStr

\* lines 98-103: the fallback of try_get_wikilink_in.
WikilinkFallback(language) ==
    IF HasDash(language) THEN SplitFirst(language)
    ELSE IF language = LangEn THEN NoneStr
    ELSE LangEn

\* line 95: the site name of a language.
Sitename(language) == ReplaceDash(language) \o <<119, 105, 107, 105>>

\* 'sitename in entity.data["sitelinks"]' and the url under it.
HasSitelink(sitelinks, sitename) == \E i \in 1..Len(sitelinks) : sitelinks[i][1] = sitename
SitelinkUrl(sitelinks, sitename) ==
    sitelinks[CHOOSE i \in 1..Len(sitelinks) : sitelinks[i][1] = sitename][2]

ResolveInit ==
    /\ rsEntity \in [label : LabelPool, sitelinks : SitelinkPool]
    /\ rsKind \in {"label", "link"}
    /\ rsRequested \in Locales
    /\ rsLanguage = rsRequested
    /\ rsWarnings = 0
    /\ rsResult = NotResolved
    /\ BBoxIdle
    /\ SubdivIdle
    /\ BgIdle
    /\ IdsIdle
    /\ MainIdle
    /\ DownloadIdle
    /\ MapIdle

\* The outermost call has neither returned nor raised.
Resolving == ~rsResult.returned /\ rsResult.raised = None

\* lines 77-88: one call of try_get_label_in.
LabelCall ==
    /\ rsKind = "label"
    /\ Resolving
    /\ IF rsLanguage = NoneStr
       THEN /\ rsResult' = [returned |-> TRUE, raised |-> None,
                            value |-> DefaultLabel(rsEntity.label)]
            /\ UNCHANGED <<rsLanguage, rsWarnings>>
       ELSE IF HasLabelIn(rsEntity.label, rsLanguage)
       THEN /\ rsResult' = [returned |-> TRUE, raised |-> None,
                            value |-> LabelIn(rsEntity.label, rsLanguage)]
            /\ UNCHANGED <<rsLanguage, rsWarnings>>
       ELSE /\ rsWarnings' = rsWarnings + 1
            /\ rsLanguage' = LabelFallback(rsLanguage)
            /\ UNCHANGED rsResult
    /\ UNCHANGED <<rsEntity, rsKind, rsRequested, bbVars, sdVars, bgVars, idVars,
                   mainVars, dlVars, mmVars>>

\* lines 91-105: one call of try_get_wikilink_in.  next() on the iterator of
\* an empty dict raises StopIteration (line 93), outside any try.
WikilinkCall ==
    /\ rsKind = "link"
    /\ Resolving
    /\ IF rsLanguage = NoneStr
       THEN /\ rsResult' =
                  IF rsEntity.sitelinks = <<>>
                  THEN [returned |-> FALSE, raised |-> "StopIteration", value |-> NoneStr]
                  ELSE [returned |-> TRUE, raised |-> None,
                        value |-> rsEntity.sitelinks[1][2]]
            /\ UNCHANGED <<rsLanguage, rsWarnings>>
       ELSE IF HasSitelink(rsEntity.sitelinks, Sitename(rsLanguage))
       THEN /\ rsResult' = [returned |-> TRUE, raised |-> None,
                            value |-> SitelinkUrl(rsEntity.sitelinks, Sitename(rsLanguage))]
            /\ UNCHANGED <<rsLanguage, rsWarnings>>
       ELSE /\ rsWarnings' = rsWarnings + 1
            /\ rsLanguage' = WikilinkFallback(rsLanguage)
            /\ UNCHANGED rsResult
    /\ UNCHANGED <<rsEntity, rsKind, rsRequested, bbVars, sdVars, bgVars, idVars,
                   mainVars, dlVars, mmVars>>

ResolveNext == LabelCall \/ WikilinkCall

SpecResolve == ResolveInit /\ [][ResolveNext]_vars

\* The base language of a locale: the locale with its region suffix stripped.
BaseLanguage(language) == IF HasDash(language) THEN SplitFirst(language) ELSE language

\* The value the resolution is to return: that of the requested locale,
\* else that of its base language, else the default-locale value.
ExpectedLabel ==
    IF HasLabelIn(rsEntity.label, rsRequested)
    THEN LabelIn(rsEntity.label, rsRequested)
    ELSE IF HasLabelIn(rsEntity.label, BaseLanguage(rsRequested))
    THEN LabelIn(rsEntity.label, BaseLanguage(rsRequested))
    ELSE IF HasLabelIn(rsEntity.label, LangEn) THEN LabelIn(rsEntity.label, LangEn)
    ELSE rsEntity.label[1][2]

ExpectedLink ==
    IF HasSitelink(rsEntity.sitelinks, Sitename(rsRequested))
    THEN {SitelinkUrl(rsEntity.sitelinks, Sitename(rsRequested))}
    ELSE IF HasSitelink(rsEntity.sitelinks, Sitename(BaseLanguage(rsRequested)))
    THEN {SitelinkUrl(rsEntity.sitelinks, Sitename(BaseLanguage(rsRequested)))}
    ELSE IF HasSitelink(rsEntity.sitelinks, EnWiki)
    THEN {SitelinkUrl(rsEntity.sitelinks, EnWiki)}
    ELSE {rsEntity.sitelinks[i][2] : i \in 1..Len(rsEntity.sitelinks)}

\* C11: label and link resolution end after finitely many fallback steps
\* and return without raising: the value of the requested locale, else of its
\* base language, else the default; every fallback step logs one warning and
\* the language of the next call is shorter or the default.
C11_ResolutionReturnsWithoutRaising ==
    /\ rsResult.raised = None
    /\ rsWarnings <= 3
    /\ rsKind # "idle" =>
          \/ rsLanguage = rsRequested /\ rsWarnings = 0
          \/ rsLanguage = NoneStr
          \/ rsLanguage = LangEn
          \/ Len(rsLanguage) < Len(rsRequested)
    /\ rsResult.returned =>
          IF rsKind = "label" THEN rsResult.value = ExpectedLabel
          ELSE rsResult.value \in ExpectedLink

----------------------------------------------------------------------------
(* build_deck.py: download_locator_map, one request or read per step.  The  *)
(* body of a response is a sequence of bytes; an incomplete read hands the  *)
(* bytes that arrived to the exception, not to map_data.                    *)

\* The bound on the consecutive incomplete reads of one call.
MaxIncompleteReads == 3

\* The bodies the server may send in full.
Bodies == {<<1, 2>>, <<3, 4>>}

\* What an incomplete read may have received: a proper prefix of a body.
Partials == {<<>>, <<1>>, <<3>>}

\* The name of a file of the folder.
FileOf(path) == <<path.stem, path.ext>>

\* f.write(map_data) in open(origin_map, 'wb'): the file holds the data alone.
Written(fs, path, data) == (FileOf(path) :> data) @@ fs

\* The loop is left with whatever was read.
GiveUpAfterIncompleteRead == "write"

\* lines 209 and 217-218: after an incomplete read the loop requests again.
AfterIncompleteRead == "request"

DownloadInit ==
    /\ dlArgs \in [url : {Url(QId(64), "svg"), Url(QId(3), "png")},
                   image_folder : {"folder"}, filename : {<<65>>}]
    /\ dlPc = "request"
    /\ dlRequests = 0
    /\ dlReads = <<>>
    /\ dlMapData = NoData
    /\ dlFiles \in {<<>>, <<<<65>>, "png">> :> <<9>>, <<<<65>>, "svg">> :> <<9>>}
    /\ dlWrites = <<>>
    /\ dlResult = NotDownloaded
    /\ BBoxIdle
    /\ SubdivIdle
    /\ BgIdle
    /\ IdsIdle
    /\ MainIdle
    /\ ResolveIdle
    /\ MapIdle

\* lines 210-213: a request with the Range header is sent and answered.
IssueRequest ==
    /\ dlPc = "request"
    /\ dlRequests' = dlRequests + 1
    /\ dlPc' = "read"
    /\ UNCHANGED <<dlArgs, dlReads, dlMapData, dlFiles, dlWrites, dlResult, bbVars,
                   sdVars, bgVars, idVars, mainVars, rsVars, mmVars>>

\* lines 213-215: urlopen raises, or read raises something other than
\* IncompleteRead; nothing catches it.
TransportError ==
    /\ dlPc \in {"request", "read"}
    /\ dlPc' = "raised"
    /\ dlResult' = [dlResult EXCEPT !.raised = "URLError"]
    /\ UNCHANGED <<dlArgs, dlRequests, dlReads, dlMapData, dlFiles, dlWrites, bbVars,
                   sdVars, bgVars, idVars, mainVars, rsVars, mmVars>>

\* lines 214-218: read raises IncompleteRead; map_data is not assigned.
IncompleteReadOfBody ==
    /\ dlPc = "read"
    /\ Len(SelectSeq(dlReads, LAMBDA r : r.kind = "incomplete")) < MaxIncompleteReads
    /\ \E partial \in Partials :
          dlReads' = Append(dlReads, [kind |-> "incomplete", data |-> partial])
    /\ dlPc' = AfterIncompleteRead
    /\ UNCHANGED <<dlArgs, dlRequests, dlMapData, dlFiles, dlWrites, dlResult, bbVars,
                   sdVars, bgVars, idVars, mainVars, rsVars, mmVars>>

\* lines 215-216: read returns the whole body and the loop is left.
CompleteRead ==
    /\ dlPc = "read"
    /\ \E body \in Bodies :
          /\ dlReads' = Append(dlReads, [kind |-> "complete", data |-> body])
          /\ dlMapData' = body
    /\ dlPc' = "write"
    /\ UNCHANGED <<dlArgs, dlRequests, dlFiles, dlWrites, dlResult, bbVars,
                   sdVars, bgVars, idVars, mainVars, rsVars, mmVars>>

\* line 219: open raises FileNotFoundError (no such folder, or a file name
\* with '/' in it), whatever the URL, and nothing is written.
OpenOriginMapFails ==
    /\ dlPc = "write"
    /\ dlPc' = "raised"
    /\ dlResult' = [dlResult EXCEPT !.raised = "FileNotFoundError"]
    /\ UNCHANGED <<dlArgs, dlRequests, dlReads, dlMapData, dlFiles, dlWrites, bbVars,
                   sdVars, bgVars, idVars, mainVars, rsVars, mmVars>>

\* lines 219-223: the origin file is written, an SVG is converted unless a
\* raster of the name exists (the converter may leave no file: its exit
\* status is not looked at), and the two names are returned.  Without the
\* converter subprocess.run raises FileNotFoundError after the write.
WriteOriginMap ==
    /\ dlPc = "write"
    /\ LET origin_map == OriginMap(dlArgs.url, dlArgs.image_folder, dlArgs.filename)
           raster_map == RasterMap(dlArgs.url, dlArgs.image_folder, dlArgs.filename)
           written == Written(dlFiles, origin_map, dlMapData)
           converting ==
               origin_map.ext = "svg" /\ FileOf(raster_map) \notin DOMAIN written
       IN /\ dlWrites' = Append(dlWrites, [name |-> FileOf(origin_map), data |-> dlMapData])
          /\ \E resvg \in ConverterOutcomes :
                IF converting /\ resvg = "absent"
                THEN /\ dlFiles' = written
                     /\ dlResult' = [dlResult EXCEPT !.raised = "FileNotFoundError"]
                     /\ dlPc' = "raised"
                ELSE /\ dlFiles' =
                            IF converting /\ resvg = "raster"
                            THEN Written(written, raster_map, dlMapData)
                            ELSE written
                     /\ dlResult' = [returned |-> TRUE, raised |-> None,
                                     origin_map |-> origin_map, raster_map |-> raster_map]
                     /\ dlPc' = "returned"
    /\ UNCHANGED <<dlArgs, dlRequests, dlReads, dlMapData, bbVars,
                   sdVars, bgVars, idVars, mainVars, rsVars, mmVars>>

DownloadNext ==
    \/ IssueRequest
    \/ TransportError
    \/ IncompleteReadOfBody
    \/ CompleteRead
    \/ OpenOriginMapFails
    \/ WriteOriginMap

SpecDownload == DownloadInit /\ [][DownloadNext]_vars

\* The reads that completed in full, and those that did not.
CompleteReads == SelectSeq(dlReads, LAMBDA r : r.kind = "complete")
IncompleteReads == SelectSeq(dlReads, LAMBDA r : r.kind = "incomplete")

\* C14 as amended: every incomplete read is followed by a new request,
\* however many came before; the origin file is written at most once, only
\* after a read that completed, with exactly the data of that read; the
\* function returns only after a complete read and after the write; once a
\* read has completed no request follows, and the call returns unless
\* opening the file or running the converter raises (before the write in
\* the first case, after it and for an SVG only in the second); a transport
\* error ends the call with nothing read in full, nothing written and no
\* further request.
C14_RetriesAndReturnsUnlessLocalError ==
    dlPc # "idle" =>
        /\ dlPc = "request" =>
              dlRequests = Len(IncompleteReads) /\ CompleteReads = <<>>
        /\ dlPc = "read" =>
              dlRequests = Len(IncompleteReads) + 1 /\ CompleteReads = <<>>
        /\ Len(dlWrites) <= 1
        /\ Len(CompleteReads) <= 1
        /\ dlWrites # <<>> =>
              /\ CompleteReads # <<>>
              /\ dlWrites[1].data = CompleteReads[1].data
              /\ dlWrites[1].name = <<dlArgs.filename, dlArgs.url.ext>>
              /\ dlFiles[dlWrites[1].name] = CompleteReads[1].data
        /\ dlResult.returned <=> (dlPc = "returned")
        /\ dlResult.returned => (Len(dlWrites) = 1 /\ dlRequests = Len(dlReads))
        /\ CompleteReads # <<>> =>
              /\ dlReads[Len(dlReads)].kind = "complete"
              /\ dlRequests = Len(dlReads)
              /\ dlMapData = CompleteReads[1].data
              /\ \/ dlPc \in {"write", "returned"}
                 \/ dlPc = "raised" /\ dlResult.raised = "FileNotFoundError"
        /\ dlPc = "raised" =>
              /\ dlResult.raised # None
              /\ ~dlResult.returned
              /\ dlResult.raised = "URLError" => (dlWrites = <<>> /\ CompleteReads = <<>>)
              /\ dlResult.raised = "FileNotFoundError" => CompleteReads # <<>>
              /\ dlWrites # <<>> =>
                    (dlResult.raised = "FileNotFoundError" /\ dlArgs.url.ext = "svg")

\* C14: every incomplete read is followed by a new request, however many
\* came before; the origin file is written at most once, only after a read
\* that completed, with exactly the data of that read; the function returns
\* if and only if a read completes: it returns only after a complete read
\* and, once a read has completed, does nothing but write and return; any
\* other transport error ends the call with nothing written and no further
\* request.
C14_RetriesUntilCompleteRead ==
    dlPc # "idle" =>
        /\ dlPc = "request" =>
              dlRequests = Len(IncompleteReads) /\ CompleteReads = <<>>
        /\ dlPc = "read" =>
              dlRequests = Len(IncompleteReads) + 1 /\ CompleteReads = <<>>
        /\ Len(dlWrites) <= 1
        /\ Len(CompleteReads) <= 1
        /\ dlWrites # <<>> =>
              /\ CompleteReads # <<>>
              /\ dlWrites[1].data = CompleteReads[1].data
              /\ dlWrites[1].name = <<dlArgs.filename, dlArgs.url.ext>>
              /\ dlFiles[dlWrites[1].name] = CompleteReads[1].data
        /\ dlResult.returned <=> (dlPc = "returned")
        /\ dlResult.returned => (Len(dlWrites) = 1 /\ dlRequests = Len(dlReads))
        /\ CompleteReads # <<>> =>
              /\ dlPc \in {"write", "returned"}
              /\ dlReads[Len(dlReads)].kind = "complete"
              /\ dlMapData = CompleteReads[1].data
        /\ (dlPc = "raised" /\ dlResult.raised = "URLError") =>
              /\ dlWrites = <<>>
              /\ CompleteReads = <<>>
              /\ ~dlResult.returned

\* C14 witness: the call has returned after three incomplete reads in a row,
\* one of which had received part of another body, and the origin file holds
\* the body of the fourth read.
C14_Witness ==
    /\ dlPc = "returned"
    /\ Len(IncompleteReads) = 3
    /\ dlRequests = 4
    /\ \E i \in 1..3 : dlReads[i].data = <<1>>
    /\ dlReads[4].data = <<3, 4>>
    /\ dlArgs.url.ext = "svg"
    /\ dlFiles[<<<<65>>, "svg">>] = <<3, 4>>

----------------------------------------------------------------------------
(* make_map.py: make_map, from its arguments to the central longitude of   *)
(* the projection.  A bounding box of a subunit is <<lon1, lat1, lon2,     *)
(* lat2>>, as box.bbox gives it.                                           *)

\* The bound on the number of subunits of the country.
MaxBoxes == 2

\* How many subunits the densely covered country has.
DenseCount == 46

\* The bounding boxes a subunit may have.
BoxPool ==
    { <<-10, -45, 100, 60>>, <<170, -45, 180, 60>>, <<-180, -45, -170, 60>>,
      <<100, -45, 190, 60>> }

\* A country of many narrow subunits side by side, two degrees wide and two
\* degrees apart, from 91 degrees west to 91 degrees east.
DenseBoxes == [i \in 1..DenseCount |-> <<4 * i - 95, 0, 4 * i - 93, 0>>]

\* The lat and lon arguments: left at None, or a place (0 is a number too).
PlacePool ==
    { [given |-> FALSE, lat |-> 0, lon |-> 0],
      [given |-> TRUE, lat |-> 60, lon |-> 170],
      [given |-> TRUE, lat |-> -45, lon |-> -170],
      [given |-> TRUE, lat |-> 60, lon |-> 0],
      [given |-> TRUE, lat |-> 0, lon |-> 100] }

\* lines 59-71: the place, if lat and lon are both truthy, then the two
\* corners of every box.
RECURSIVE Corners(_)
Corners(boxes) ==
    IF boxes = <<>> THEN <<>>
    ELSE <<<<boxes[1][2], boxes[1][1]>>, <<boxes[1][4], boxes[1][3]>>>>
             \o Corners(Tail(boxes))

PointsToInclude(a) ==
    (IF a.given /\ a.lat # 0 /\ a.lon # 0 THEN <<<<a.lat, a.lon>>>> ELSE <<>>)
        \o Corners(a.boxes)

\* line 74: one degree is added on every side.
BiggerBox(big_box) ==
    <<big_box[1] - 1, big_box[2] - 1, big_box[3] + 1, big_box[4] + 1>>

\* lines 77-79
CentralLongitude(bigger_box) == IF bigger_box[2] > bigger_box[4] THEN 180 ELSE 0

MapInit ==
    /\ \E place \in PlacePool, boxes \in SeqsUpTo(BoxPool, MaxBoxes) \cup {DenseBoxes} :
          mmArgs = [given |-> place.given, lat |-> place.lat, lon |-> place.lon,
                    boxes |-> boxes]
    /\ mmResult = MapNotCalled
    /\ BBoxIdle
    /\ SubdivIdle
    /\ BgIdle
    /\ IdsIdle
    /\ MainIdle
    /\ ResolveIdle
    /\ DownloadIdle

\* lines 56-81: one call of make_map, up to the projection.  With no point
\* to include bounding_box_for_points raises ValueError (line 21).
CallMakeMap ==
    /\ ~mmResult.called
    /\ LET points_to_include == PointsToInclude(mmArgs)
       IN mmResult' =
              IF points_to_include = <<>>
              THEN [MapNotCalled EXCEPT !.called = TRUE, !.raised = "ValueError"]
              ELSE LET big_box == BoundingBoxForPoints(points_to_include)
                       bigger_box == BiggerBox(big_box)
                   IN [called |-> TRUE, raised |-> None,
                       points |-> points_to_include, big_box |-> big_box,
                       bigger_box |-> bigger_box,
                       central_longitude |-> CentralLongitude(bigger_box)]
    /\ UNCHANGED <<mmArgs, bbVars, sdVars, bgVars, idVars, mainVars, rsVars, dlVars>>

MapNext == CallMakeMap

SpecMap == MapInit /\ [][MapNext]_vars

\* C15: make_map chooses central longitude 180 exactly for the point sets
\* whose bounding box signals a date-line crossing (min_lon > max_lon), and
\* 0 for all others; the margin of one degree does not change the choice.
C15_CentralLongitudeFollowsBox ==
    (mmResult.called /\ mmResult.raised = None) =>
        /\ mmResult.big_box = BoundingBoxForPoints(mmResult.points)
        /\ mmResult.big_box[2] > mmResult.big_box[4]
              => mmResult.central_longitude = 180
        /\ ~(mmResult.big_box[2] > mmResult.big_box[4])
              => mmResult.central_longitude = 0
====
